---- MODULE Spec2Model ----
(***************************************************************************)
(* Model of the local file drivers of @hawiah/local.                       *)
(*                                                                         *)
(* The repository holds four driver classes, each with the same public     *)
(* surface:                                                                *)
(*   "JsonAuto"  JSONDriver with an autoSave flag   (JSONDriver.ts 10-244) *)
(*   "Json"      JSONDriver that always saves       (JSONDriver.ts 255-562)*)
(*   "YamlAuto"  YAMLDriver with an autoSave option (YAMLDriver.ts)        *)
(*   "Yaml"      YAMLDriver that saves on save()    (unnamed/part_000)     *)
(* One driver instance on one backing file is modelled; drv says which     *)
(* class it is.                                                            *)
(***************************************************************************)
EXTENDS Integers, Sequences, FiniteSets, TLC

VARIABLES
    drv,          \* which driver class the instance is
    autoSave,     \* the autoSave flag (read by JsonAuto and YamlAuto only)
    isConnected,  \* the isConnected field; JsonAuto has no such field and never
                  \* reads it: for JsonAuto it only records the lifecycle phase
    data,         \* the in-memory collection (this.data / this.records)
    disk,         \* content of the backing file
    now,          \* the wall clock, in milliseconds
    inserted,     \* number of records set() has inserted so far; the next
                  \* generateId() result is told apart by it
    op,           \* name of the call that returned last
    arg,          \* its arguments
    ret,          \* its outcome
    io            \* the file operations in flight: those of the calls that are
                  \* suspended at an await, oldest first

vars == <<drv, autoSave, isConnected, data, disk, now, inserted, op, arg, ret, io>>

-----------------------------------------------------------------------------
\* Bounds of the model.

\* set() calls in a run
MaxSets == 2

\* clock ticks in a run
MaxTime == 1

-----------------------------------------------------------------------------
\* JavaScript values.  Every value is a record of one shape, so that any two
\* values can be compared.  An object is its list of entries in insertion
\* order; an array is its list of elements (entry keys unused).

V(t, n, s, kids) == [t |-> t, n |-> n, s |-> s, kids |-> kids]

E(k, v) == [k |-> k, v |-> v]

Undef == V("undefined", 0, "", <<>>)

Null == V("null", 0, "", <<>>)

Bool(b) == V("boolean", IF b THEN 1 ELSE 0, "", <<>>)

Num(i) == V("number", i, "", <<>>)

\* the number NaN
NaN == V("number", 0, "NaN", <<>>)

Str(x) == V("string", 0, x, <<>>)

\* new Date().toISOString() at instant i
IsoTime(i) == V("string", i, "iso", <<>>)

\* the i-th string handed out by generateId()
GenId(i) == V("string", i, "gen", <<>>)

Arr(items) == V("array", 0, "", [i \in 1..Len(items) |-> E("", items[i])])

Obj(entries) == V("object", 0, "", entries)

EmptyObj == Obj(<<>>)

\* typeof v === 'object' && v !== null && !Array.isArray(v)
IsObject(v) == v.t = "object"

IsArray(v) == v.t = "array"

Items(a) == [i \in 1..Len(a.kids) |-> a.kids[i].v]

Keys(o) == {o.kids[i].k : i \in 1..Len(o.kids)}

HasKey(o, k) == \E i \in 1..Len(o.kids) : o.kids[i].k = k

\* o[k]: undefined when o has no such key
Get(o, k) ==
    IF HasKey(o, k)
    THEN o.kids[CHOOSE i \in 1..Len(o.kids) : o.kids[i].k = k].v
    ELSE Undef

\* o[k] = v on an object literal under construction: an existing key keeps its
\* place, a new key goes last
Put(o, k, v) ==
    IF HasKey(o, k)
    THEN [o EXCEPT !.kids = [i \in 1..Len(o.kids) |->
                                IF o.kids[i].k = k THEN E(k, v) ELSE o.kids[i]]]
    ELSE [o EXCEPT !.kids = Append(o.kids, E(k, v))]

RECURSIVE SpreadFrom(_, _, _)
SpreadFrom(o, src, i) ==
    IF i > Len(src.kids) THEN o
    ELSE SpreadFrom(Put(o, src.kids[i].k, src.kids[i].v), src, i + 1)

\* { ...o, ...src }
Spread(o, src) == SpreadFrom(o, src, 1)

\* the truthiness `||` tests
Truthy(v) ==
    CASE v.t \in {"undefined", "null"} -> FALSE
      [] v.t = "boolean" -> v.n = 1
      [] v.t = "number" -> v.n # 0
      [] v.t = "string" -> ~(v.s = "" /\ v.n = 0)
      [] OTHER -> TRUE

\* What JSON.stringify keeps of a value: an object entry whose value is
\* undefined is left out, an undefined array element is written as null, and
\* so is a number that is not finite.  Two values have the same JSON text
\* exactly when these documents are equal.
RECURSIVE ToJSON(_)
ToJSON(v) ==
    CASE v.t = "object" ->
            LET kept == SelectSeq(v.kids, LAMBDA e : e.v.t # "undefined")
            IN  Obj([i \in 1..Len(kept) |-> E(kept[i].k, ToJSON(kept[i].v))])
      [] v.t = "array" ->
            V("array", 0, "", [i \in 1..Len(v.kids) |->
                E("", IF v.kids[i].v.t = "undefined" THEN Null
                      ELSE ToJSON(v.kids[i].v))])
      [] v = NaN -> Null
      [] OTHER -> v

-----------------------------------------------------------------------------
\* Predicate matching.

\* recordValue === queryValue once the object/object and array/array cases
\* are gone: two primitives of the same type and value (an object or array
\* is identical only to itself, and a query never is the record's own value;
\* NaN is identical to nothing)
StrictEq(rv, qv) == rv.t \notin {"object", "array"} /\ rv = qv /\ rv # NaN

\* JSONDriver.matches / JSONDriver.matchesQuery (the two are the same text)
RECURSIVE MatchesJSON(_, _)
MatchesJSON(record, query) ==
    IF Len(query.kids) = 0 THEN TRUE
    ELSE \A i \in 1..Len(query.kids) :
            LET queryValue == query.kids[i].v
                recordValue == Get(record, query.kids[i].k)
            IN  IF IsObject(queryValue)
                THEN IF IsObject(recordValue)
                     THEN MatchesJSON(recordValue, queryValue)
                     ELSE FALSE
                ELSE IF IsArray(queryValue) /\ IsArray(recordValue)
                     THEN ToJSON(queryValue) = ToJSON(recordValue)
                     ELSE StrictEq(recordValue, queryValue)

\* YAMLDriver.matchesQuery: JSON.stringify(record[key]) === JSON.stringify(value)
\* for every entry of the query
MatchesYAML(record, query) ==
    \A i \in 1..Len(query.kids) :
        ToJSON(Get(record, query.kids[i].k)) = ToJSON(query.kids[i].v)

IsJson == drv \in {"JsonAuto", "Json"}

\* a matcher that stops after the first key of the query
MatchesFirstKey(record, query) ==
    IF Len(query.kids) = 0 THEN TRUE
    ELSE IF IsJson THEN MatchesJSON(record, Obj(<<query.kids[1]>>))
                   ELSE MatchesYAML(record, Obj(<<query.kids[1]>>))

Matches(record, query) ==
    IF IsJson THEN MatchesJSON(record, query) ELSE MatchesYAML(record, query)

\* a filter that loses the first record it finds
FilterButFirst(recs, query) ==
    LET found == SelectSeq(recs, LAMBDA r : Matches(r, query))
    IN  IF found = <<>> THEN <<>> ELSE Tail(found)

\* this.data.filter(record => this.matchesQuery(record, query))
Filter(recs, query) == SelectSeq(recs, LAMBDA r : Matches(r, query))

-----------------------------------------------------------------------------
\* The backing file and the two codecs.

NoFile == [exists |-> FALSE, doc |-> Null]

File(doc) == [exists |-> TRUE, doc |-> doc]

\* file text that neither JSON.parse nor yaml.load accepts
Malformed == V("malformed", 0, "", <<>>)

\* a codec that writes the first record only
EncodeHead(recs) == Arr(IF recs = <<>> THEN <<>> ELSE <<Head(recs)>>)

\* JSON.stringify(this.data, null, 2) / yaml.dump(this.data, this.yamlOptions):
\* the document written for a collection, as the parser reads it back.
\* yaml.dump writes every value of these collections so that yaml.load reads
\* the same value (strings that look like another type are quoted, NaN is
\* written .nan); no record here holds an undefined value, which yaml.dump
\* refuses.
Encode(recs) == IF IsJson THEN ToJSON(Arr(recs)) ELSE Arr(recs)

\* saveToFile() / persist(): the file after the writer has replaced it
Saved(recs) == File(Encode(recs))

\* Object.values(parsed.records)
ObjectValues(v) == Items(v)

\* a load that keeps the records already in memory
LoadKeepsMemory(doc) == [err |-> "none", recs |-> data]

\* What connect() makes of a parsed document.  err is the exception thrown,
\* "none" when the load succeeds.
LoadOnConnect(doc) ==
    IF doc = Malformed
    THEN IF IsJson THEN [err |-> "SyntaxError", recs |-> <<>>]
                   ELSE [err |-> "none", recs |-> <<>>]
    ELSE IF IsArray(doc) THEN [err |-> "none", recs |-> Items(doc)]
    ELSE IF ~IsJson THEN [err |-> "none", recs |-> <<>>]
    ELSE IF doc = Null THEN [err |-> "TypeError", recs |-> <<>>]
    ELSE IF IsObject(doc) /\ Truthy(Get(doc, "records"))
                          /\ Get(doc, "records").t \in {"object", "array"}
         THEN [err |-> "none", recs |-> ObjectValues(Get(doc, "records"))]
         ELSE [err |-> "none", recs |-> <<>>]

-----------------------------------------------------------------------------
\* Save policy of each class.

\* a JSONDriver that saves on save() only
AutoSavesNotJson ==
    CASE drv = "JsonAuto" -> autoSave
      [] drv = "Json" -> FALSE
      [] drv = "YamlAuto" -> autoSave
      [] drv = "Yaml" -> FALSE

\* mutations (set, update, delete) save before they return
AutoSaves ==
    CASE drv = "JsonAuto" -> autoSave
      [] drv = "Json" -> TRUE
      [] drv = "YamlAuto" -> autoSave
      [] drv = "Yaml" -> FALSE

\* clear() saves before it returns
ClearSaves ==
    CASE drv = "JsonAuto" -> autoSave
      [] drv = "Json" -> TRUE
      [] drv = "YamlAuto" -> TRUE
      [] drv = "Yaml" -> FALSE

\* every disconnect() saves, whatever the flag
DisconnectSavesAlways == TRUE

\* disconnect() saves before it returns
DisconnectSaves ==
    CASE drv = "JsonAuto" -> TRUE
      [] drv = "Json" -> FALSE
      [] drv = "YamlAuto" -> autoSave
      [] drv = "Yaml" -> FALSE

\* connect() writes an empty snapshot when the file is absent
ConnectCreates ==
    CASE drv = "JsonAuto" -> autoSave
      [] OTHER -> TRUE

\* the class calls ensureConnected() at the top of its operations
Gated == drv # "JsonAuto"

\* ensureConnected() throws
NotConnected == Gated /\ ~isConnected

-----------------------------------------------------------------------------
\* Arguments the client passes.

Drivers == {"JsonAuto", "Json", "YamlAuto", "Yaml"}

\* set(data)
SetInputs ==
    { Obj(<<E("a", Num(1))>>),
      Obj(<<E("_id", Str("k1")), E("_createdAt", Str("c0")), E("a", Num(2))>>) }

\* update(query, data)
Patches ==
    { Obj(<<E("a", Num(2)), E("x", Bool(TRUE))>>),
      Obj(<<E("_id", Str("k2")), E("_createdAt", Str("c1"))>>) }

Queries ==
    { EmptyObj,
      Obj(<<E("a", Num(1))>>) }

-----------------------------------------------------------------------------
\* Outcomes of a call.

Ok == [err |-> "none", n |-> 0, b |-> FALSE, recs |-> <<>>]

Thrown(e) == [err |-> e, n |-> 0, b |-> FALSE, recs |-> <<>>]

\* a call that runs from its start to its return with no other call in
\* between: it leaves the file operations in flight as they are
Returned(name, q, d, r) ==
    /\ op' = name
    /\ arg' = [q |-> q, d |-> d]
    /\ ret' = r
    /\ io' = io

\* the values two successive `new Date()` reads can give: the clock may move
\* on by a millisecond between them
LaterReads == {t \in {now, now + 1} : t <= MaxTime}

-----------------------------------------------------------------------------
\* The state after construction.

InitDisk == {NoFile}

Init ==
    /\ drv \in Drivers
    /\ autoSave \in IF drv \in {"JsonAuto", "YamlAuto"} THEN BOOLEAN ELSE {TRUE}
    /\ isConnected = FALSE
    /\ data = <<>>
    /\ disk \in InitDisk
    /\ now = 0
    /\ inserted = 0
    /\ op = "new"
    /\ arg = [q |-> EmptyObj, d |-> EmptyObj]
    /\ ret = Ok
    /\ io = <<>>

-----------------------------------------------------------------------------
\* Lifecycle.

Connect ==
    IF ~disk.exists
    THEN \* ENOENT (JSON) / !existsSync (YamlAuto)
         /\ data' = <<>>
         /\ disk' = IF ConnectCreates THEN Saved(<<>>) ELSE disk
         /\ isConnected' = TRUE
         /\ Returned("connect", EmptyObj, EmptyObj, Ok)
         /\ UNCHANGED <<drv, autoSave, now, inserted>>
    ELSE LET loaded == LoadOnConnect(disk.doc)
         IN  IF loaded.err # "none"
             THEN /\ Returned("connect", EmptyObj, EmptyObj, Thrown(loaded.err))
                  /\ UNCHANGED <<drv, autoSave, isConnected, data, disk, now, inserted>>
             ELSE /\ data' = loaded.recs
                  /\ isConnected' = TRUE
                  /\ Returned("connect", EmptyObj, EmptyObj, Ok)
                  /\ UNCHANGED <<drv, autoSave, disk, now, inserted>>

\* JsonAuto.disconnect() empties this.records; the others keep this.data
DisconnectClears == drv = "JsonAuto"

Disconnect ==
    /\ disk' = IF DisconnectSaves THEN Saved(data) ELSE disk
    /\ data' = IF DisconnectClears THEN <<>> ELSE data
    /\ isConnected' = FALSE
    /\ Returned("disconnect", EmptyObj, EmptyObj, Ok)
    /\ UNCHANGED <<drv, autoSave, now, inserted>>

\* a call that ensureConnected() stops
Refused(name, q, d) ==
    /\ Returned(name, q, d, Thrown("NotConnected"))
    /\ UNCHANGED <<drv, autoSave, isConnected, data, disk, now, inserted>>

-----------------------------------------------------------------------------
\* Record Store.

\* set() draws a fresh id: always in the YAML drivers, in Json unless the
\* client's _id is truthy, never in JsonAuto
DrawsId(d) ==
    CASE drv = "JsonAuto" -> FALSE
      [] drv = "Json" -> ~Truthy(Get(d, "_id"))
      [] OTHER -> TRUE

\* the object literal set() builds; t1 and t2 are its two clock reads
NewRecord(d, t1, t2) ==
    LET base == Spread(EmptyObj, d)
        withId ==
            CASE drv = "JsonAuto" -> base
              [] drv = "Json" ->
                    Put(base, "_id", IF Truthy(Get(d, "_id")) THEN Get(d, "_id")
                                     ELSE GenId(inserted))
              [] OTHER -> Put(base, "_id", GenId(inserted))
    IN  Put(Put(withId, "_createdAt", IsoTime(t1)), "_updatedAt", IsoTime(t2))

\* a set() that puts the new record in front of the others
SetInFront(d) ==
    IF NotConnected THEN Refused("set", EmptyObj, d)
    ELSE /\ inserted < MaxSets
         /\ \E t2 \in LaterReads :
              LET record == NewRecord(d, now, t2)
              IN  /\ data' = <<record>> \o data
                  /\ now' = t2
                  /\ Returned("set", EmptyObj, d, [Ok EXCEPT !.recs = <<record>>])
         /\ inserted' = inserted + 1
         /\ disk' = IF AutoSaves THEN Saved(data') ELSE disk
         /\ UNCHANGED <<drv, autoSave, isConnected>>

Set(d) ==
    IF NotConnected THEN Refused("set", EmptyObj, d)
    ELSE /\ inserted < MaxSets
         /\ \E t2 \in LaterReads :
              LET record == NewRecord(d, now, t2)
              IN  /\ data' = Append(data, record)
                  /\ now' = t2
                  /\ Returned("set", EmptyObj, d, [Ok EXCEPT !.recs = <<record>>])
         /\ inserted' = inserted + 1
         /\ disk' = IF AutoSaves THEN Saved(data') ELSE disk
         /\ UNCHANGED <<drv, autoSave, isConnected>>

Get_(q) ==
    IF NotConnected THEN Refused("get", q, EmptyObj)
    ELSE /\ Returned("get", q, EmptyObj,
                     [Ok EXCEPT !.recs = IF Len(q.kids) = 0 THEN data
                                         ELSE Filter(data, q)])
         /\ UNCHANGED <<drv, autoSave, isConnected, data, disk, now, inserted>>

GetOne(q) ==
    IF NotConnected THEN Refused("getOne", q, EmptyObj)
    ELSE /\ Returned("getOne", q, EmptyObj,
                     [Ok EXCEPT !.recs = IF Filter(data, q) = <<>> THEN <<>>
                                         ELSE <<Head(Filter(data, q))>>])
         /\ UNCHANGED <<drv, autoSave, isConnected, data, disk, now, inserted>>

\* an update() that stores the patch in place of the record
UpdatedRecordReplaced(record, d, t) ==
    Put(Put(Put(Spread(EmptyObj, d), "_id", Get(record, "_id")),
            "_createdAt", Get(record, "_createdAt")),
        "_updatedAt", IsoTime(t))

\* the object literal update() builds for a matching record
UpdatedRecord(record, d, t) ==
    LET merged == Spread(Spread(EmptyObj, record), d)
    IN  IF IsJson
        THEN Put(merged, "_updatedAt", IsoTime(t))
        ELSE Put(Put(Put(merged, "_id", Get(record, "_id")),
                     "_createdAt", Get(record, "_createdAt")),
                 "_updatedAt", IsoTime(t))

\* the number of records the query matches
MatchCount(recs, q) == Cardinality({i \in 1..Len(recs) : Matches(recs[i], q)})

\* update() reads the clock once per matching record: records up to position
\* cut see the clock at now, those after it at t2
Update(q, d) ==
    IF NotConnected THEN Refused("update", q, d)
    ELSE LET count == MatchCount(data, q)
         IN  /\ \E t2 \in LaterReads :
                 \E cut \in IF t2 = now THEN {Len(data)} ELSE 0..Len(data) :
                    /\ data' = [i \in 1..Len(data) |->
                                  IF Matches(data[i], q)
                                  THEN UpdatedRecord(data[i], d,
                                                     IF i <= cut THEN now ELSE t2)
                                  ELSE data[i]]
                    /\ now' = IF count > 0 THEN t2 ELSE now
             /\ disk' = IF count > 0 /\ AutoSaves THEN Saved(data') ELSE disk
             /\ Returned("update", q, d, [Ok EXCEPT !.n = count])
             /\ UNCHANGED <<drv, autoSave, isConnected, inserted>>

\* a delete() that stops at the first matching record
RemainingButFirst(recs, q) ==
    IF \E i \in 1..Len(recs) : Matches(recs[i], q)
    THEN LET first == CHOOSE i \in 1..Len(recs) :
                         /\ Matches(recs[i], q)
                         /\ \A j \in 1..(i - 1) : ~Matches(recs[j], q)
         IN  SubSeq(recs, 1, first - 1) \o SubSeq(recs, first + 1, Len(recs))
    ELSE recs

\* this.data.filter(record => !this.matchesQuery(record, query))
Remaining(recs, q) == SelectSeq(recs, LAMBDA r : ~Matches(r, q))

Delete(q) ==
    IF NotConnected THEN Refused("delete", q, EmptyObj)
    ELSE LET count == Len(data) - Len(Remaining(data, q))
         IN  /\ data' = Remaining(data, q)
             /\ disk' = IF count > 0 /\ AutoSaves THEN Saved(data') ELSE disk
             /\ Returned("delete", q, EmptyObj, [Ok EXCEPT !.n = count])
             /\ UNCHANGED <<drv, autoSave, isConnected, now, inserted>>

Exists(q) ==
    IF NotConnected THEN Refused("exists", q, EmptyObj)
    ELSE /\ Returned("exists", q, EmptyObj,
                     [Ok EXCEPT !.b = \E i \in 1..Len(data) : Matches(data[i], q)])
         /\ UNCHANGED <<drv, autoSave, isConnected, data, disk, now, inserted>>

Count(q) ==
    IF NotConnected THEN Refused("count", q, EmptyObj)
    ELSE /\ Returned("count", q, EmptyObj,
                     [Ok EXCEPT !.n = IF Len(q.kids) = 0 THEN Len(data)
                                      ELSE Len(Filter(data, q))])
         /\ UNCHANGED <<drv, autoSave, isConnected, data, disk, now, inserted>>

Clear ==
    IF NotConnected THEN Refused("clear", EmptyObj, EmptyObj)
    ELSE /\ data' = <<>>
         /\ disk' = IF ClearSaves THEN Saved(data') ELSE disk
         /\ Returned("clear", EmptyObj, EmptyObj, Ok)
         /\ UNCHANGED <<drv, autoSave, isConnected, now, inserted>>

\* save() (Json, YamlAuto, Yaml) / flush() (JsonAuto)
Save ==
    IF NotConnected THEN Refused("save", EmptyObj, EmptyObj)
    ELSE /\ disk' = Saved(data)
         /\ Returned("save", EmptyObj, EmptyObj, Ok)
         /\ UNCHANGED <<drv, autoSave, isConnected, data, now, inserted>>

\* time passes between two calls
Tick ==
    /\ now < MaxTime
    /\ now' = now + 1
    /\ UNCHANGED <<drv, autoSave, isConnected, data, disk, inserted, op, arg, ret, io>>

Next ==
    \/ Connect
    \/ Disconnect
    \/ \E d \in SetInputs : Set(d)
    \/ \E q \in Queries : Get_(q)
    \/ \E q \in Queries : GetOne(q)
    \/ \E q \in Queries, d \in Patches : Update(q, d)
    \/ \E q \in Queries : Delete(q)
    \/ \E q \in Queries : Exists(q)
    \/ \E q \in Queries : Count(q)
    \/ Clear
    \/ Save
    \/ Tick

Spec == Init /\ [][Next]_vars

-----------------------------------------------------------------------------
\* The record store on its own: a driver that is connected once and then
\* written to. No call here touches the file except through auto-save.

NextStore ==
    \/ Connect
    \/ \E d \in SetInputs : Set(d)
    \/ \E q \in Queries, d \in Patches : Update(q, d)
    \/ \E q \in Queries : Delete(q)
    \/ Tick

SpecStore == Init /\ [][NextStore]_vars

-----------------------------------------------------------------------------
\* Persistence: the lifecycle and every operation that changes the records or
\* the file, with patches of application fields.

PlainPatches == {d \in Patches : ~HasKey(d, "_id")}

NextPersist ==
    \/ Connect
    \/ Disconnect
    \/ \E d \in SetInputs : Set(d)
    \/ \E q \in Queries, d \in PlainPatches : Update(q, d)
    \/ \E q \in Queries : Delete(q)
    \/ Clear
    \/ Save
    \/ Tick

SpecPersist == Init /\ [][NextPersist]_vars

-----------------------------------------------------------------------------
\* Matching on a loaded collection: a connected driver whose file held one or
\* two records written by an earlier run, and the read operations on it.

MatchValues ==
    { Num(1), Num(2), Null,
      Obj(<<E("b", Num(2))>>),
      Obj(<<E("b", Num(2)), E("c", Num(99))>>),
      Obj(<<E("c", Num(99)), E("b", Num(2))>>),
      Obj(<<E("b", Num(3)), E("c", Num(99))>>),
      Obj(<<E("b", Obj(<<E("d", Num(1)), E("e", Num(5))>>))>>) }

\* a stored record with field a = v, or without a field a
StoredRecord(name, fields) ==
    Put(Put(Put(Spread(EmptyObj, fields), "_id", Str(name)),
            "_createdAt", IsoTime(0)), "_updatedAt", IsoTime(0))

MatchRecords ==
    {StoredRecord("r1", Obj(<<E("a", v)>>)) : v \in MatchValues}
        \cup {StoredRecord("r0", Obj(<<E("z", Num(1))>>))}

MatchQueries ==
    { EmptyObj,
      Obj(<<E("a", Num(1))>>),
      Obj(<<E("a", EmptyObj)>>),
      Obj(<<E("a", Obj(<<E("b", Num(2))>>))>>),
      Obj(<<E("a", Obj(<<E("b", Num(2)), E("c", Num(99))>>))>>),
      Obj(<<E("a", Obj(<<E("b", Obj(<<E("d", Num(1))>>))>>))>>) }

InitMatch ==
    /\ drv \in Drivers
    /\ autoSave \in IF drv \in {"JsonAuto", "YamlAuto"} THEN BOOLEAN ELSE {TRUE}
    /\ isConnected = TRUE
    /\ data \in {<<r>> : r \in MatchRecords}
    /\ disk = Saved(data)
    /\ now = 0
    /\ inserted = 0
    /\ op = "connect"
    /\ arg = [q |-> EmptyObj, d |-> EmptyObj]
    /\ ret = Ok
    /\ io = <<>>

NextMatch ==
    \/ \E q \in MatchQueries : Get_(q)
    \/ \E q \in MatchQueries : GetOne(q)
    \/ \E q \in MatchQueries : Exists(q)
    \/ \E q \in MatchQueries : Count(q)

SpecMatch == InitMatch /\ [][NextMatch]_vars

-----------------------------------------------------------------------------
\* Selection on a loaded collection of up to three records: scalar fields,
\* list fields, and queries of one and of two keys.

SelectFields ==
    << Obj(<<E("a", Num(1))>>),
       Obj(<<E("a", Num(2))>>),
       Obj(<<E("z", Num(1))>>),
       Obj(<<E("a", Null)>>),
       Obj(<<E("a", Num(1)), E("z", Num(1))>>),
       Obj(<<E("tags", Num(5))>>),
       Obj(<<E("tags", Arr(<<Num(1), Num(2)>>))>>),
       Obj(<<E("tags", Arr(<<Num(1), Num(2), Num(3)>>))>>),
       Obj(<<E("tags", Arr(<<Num(2), Num(1)>>))>>),
       Obj(<<E("tags", Arr(<<Obj(<<E("b", Num(2)), E("c", Num(99))>>)>>))>>),
       Obj(<<E("tags", Arr(<<Obj(<<E("c", Num(99)), E("b", Num(2))>>)>>))>>) >>

\* the i-th record, as an earlier set(SelectFields[i]) stored it
SelectRecord(i) ==
    Put(Put(Put(Spread(EmptyObj, SelectFields[i]), "_id", V("string", i, "id", <<>>)),
            "_createdAt", IsoTime(0)), "_updatedAt", IsoTime(0))

SelectRecords == {SelectRecord(i) : i \in 1..Len(SelectFields)}

\* the three records of the example: a = 1, a = 2, no field a
SelectExample == {SelectRecord(i) : i \in 1..3}

SelectCollections ==
    {<<r>> : r \in SelectRecords}
        \cup {c \in [1..2 -> SelectRecords] : c[1] # c[2]}
        \cup {c \in [1..3 -> SelectExample] : Cardinality({c[i] : i \in 1..3}) = 3}

SelectQueries ==
    { EmptyObj,
      Obj(<<E("a", Num(1))>>),
      Obj(<<E("a", Null)>>),
      Obj(<<E("z", Num(1))>>),
      Obj(<<E("a", Num(1)), E("z", Num(1))>>),
      Obj(<<E("tags", Arr(<<Num(1), Num(2)>>))>>),
      Obj(<<E("tags", Arr(<<Obj(<<E("b", Num(2)), E("c", Num(99))>>)>>))>>),
      Obj(<<E("tags", Arr(<<Obj(<<E("b", Num(2))>>)>>))>>) }

InitSelect ==
    /\ drv \in Drivers
    /\ autoSave \in IF drv \in {"JsonAuto", "YamlAuto"} THEN BOOLEAN ELSE {TRUE}
    /\ isConnected = TRUE
    /\ data \in SelectCollections
    /\ disk = Saved(data)
    /\ now = 0
    /\ inserted = 0
    /\ op = "connect"
    /\ arg = [q |-> EmptyObj, d |-> EmptyObj]
    /\ ret = Ok
    /\ io = <<>>

NextSelect ==
    \/ \E q \in SelectQueries : Get_(q)
    \/ \E q \in SelectQueries : GetOne(q)
    \/ \E q \in SelectQueries : Exists(q)
    \/ \E q \in SelectQueries : Count(q)

SpecSelect == InitSelect /\ [][NextSelect]_vars

-----------------------------------------------------------------------------
\* Loading: a driver on a path that may already hold a file, written by an
\* earlier run or by another program, with reload(), drop() and the accessors
\* that work without a connection.

\* What reload() makes of a parsed document: a top-level array is the
\* collection, anything else is the empty collection; a parse failure is
\* thrown (JSON.parse's SyntaxError, or the Error the YAML drivers build).
LoadOnReload(doc) ==
    IF doc = Malformed
    THEN [err |-> IF IsJson THEN "SyntaxError" ELSE "Error", recs |-> <<>>]
    ELSE IF IsArray(doc) THEN [err |-> "none", recs |-> Items(doc)]
    ELSE [err |-> "none", recs |-> <<>>]

\* the class has reload(), drop() and getAllData()
HasReload == drv # "JsonAuto"

Reload ==
    /\ HasReload
    /\ IF NotConnected THEN Refused("reload", EmptyObj, EmptyObj)
       ELSE IF ~disk.exists
       THEN \* ENOENT empties the collection (Json); the YAML drivers skip
            \* the load and keep it
            /\ data' = IF IsJson THEN <<>> ELSE data
            /\ Returned("reload", EmptyObj, EmptyObj, Ok)
            /\ UNCHANGED <<drv, autoSave, isConnected, disk, now, inserted>>
       ELSE LET loaded == LoadOnReload(disk.doc)
            IN  IF loaded.err # "none"
                THEN /\ Returned("reload", EmptyObj, EmptyObj, Thrown(loaded.err))
                     /\ UNCHANGED <<drv, autoSave, isConnected, data, disk, now,
                                    inserted>>
                ELSE /\ data' = loaded.recs
                     /\ Returned("reload", EmptyObj, EmptyObj, Ok)
                     /\ UNCHANGED <<drv, autoSave, isConnected, disk, now, inserted>>

Drop ==
    /\ HasReload
    /\ IF NotConnected THEN Refused("drop", EmptyObj, EmptyObj)
       ELSE /\ disk' = NoFile
            /\ data' = <<>>
            /\ Returned("drop", EmptyObj, EmptyObj, Ok)
            /\ UNCHANGED <<drv, autoSave, isConnected, now, inserted>>

\* getAllData(): no ensureConnected()
GetAllData ==
    /\ HasReload
    /\ Returned("getAllData", EmptyObj, EmptyObj, [Ok EXCEPT !.recs = data])
    /\ UNCHANGED <<drv, autoSave, isConnected, data, disk, now, inserted>>

\* getRecordCount() of the JSONDriver with the autoSave flag
GetRecordCount ==
    /\ drv = "JsonAuto"
    /\ Returned("getRecordCount", EmptyObj, EmptyObj, [Ok EXCEPT !.n = Len(data)])
    /\ UNCHANGED <<drv, autoSave, isConnected, data, disk, now, inserted>>

\* the legacy JSON document: an object whose `records` is an object of records
Legacy == Obj(<<E("records", Obj(<<E("k", SelectRecord(2))>>))>>)

\* files found at the path: none, text that does not parse, a snapshot of one
\* record, the legacy JSON object, and documents that are no sequence: a
\* number, null, and an object without `records`
LoadDisks ==
    { NoFile,
      File(Malformed),
      File(Arr(<<SelectRecord(1)>>)),
      File(Legacy),
      File(Num(7)),
      File(Null),
      File(Obj(<<E("version", Num(1))>>)) }

\* another program replaces or removes the file; the event is recorded in
\* place of the last call
ExternalWrite ==
    /\ disk' \in LoadDisks \ {disk}
    /\ Returned("externalWrite", EmptyObj, EmptyObj, Ok)
    /\ UNCHANGED <<drv, autoSave, isConnected, data, now, inserted>>

LoadInputs == {Obj(<<E("a", Num(1))>>)}

InitLoad ==
    /\ drv \in Drivers
    /\ autoSave \in IF drv \in {"JsonAuto", "YamlAuto"} THEN BOOLEAN ELSE {TRUE}
    /\ isConnected = FALSE
    /\ data = <<>>
    /\ disk \in LoadDisks
    /\ now = 0
    /\ inserted = 0
    /\ op = "new"
    /\ arg = [q |-> EmptyObj, d |-> EmptyObj]
    /\ ret = Ok
    /\ io = <<>>

NextLoad ==
    \/ Connect
    \/ Disconnect
    \/ \E d \in LoadInputs : Set(d)
    \/ Save
    \/ Reload
    \/ Drop
    \/ GetAllData
    \/ GetRecordCount
    \/ ExternalWrite

SpecLoad == InitLoad /\ [][NextLoad]_vars

-----------------------------------------------------------------------------
\* Failing writes: the operations whose saveToFile() / persist() is rejected by
\* the writer.  The rejection reaches the caller as the error of the call.

\* the file after writer.write() has rejected: the writer replaces the file
\* atomically, so it holds what it held
WriteRejected(f) == f

\* a set() that saves before it appends: its failure leaves memory untouched
SetFailsBeforePush(d) ==
    /\ ~NotConnected
    /\ AutoSaves
    /\ inserted < MaxSets
    /\ disk' = WriteRejected(disk)
    /\ Returned("set", EmptyObj, d, Thrown("IOError"))
    /\ UNCHANGED <<drv, autoSave, isConnected, data, now, inserted>>

SetFails(d) ==
    /\ ~NotConnected
    /\ AutoSaves
    /\ inserted < MaxSets
    /\ \E t2 \in LaterReads :
         /\ data' = Append(data, NewRecord(d, now, t2))
         /\ now' = t2
    /\ inserted' = inserted + 1
    /\ disk' = WriteRejected(disk)
    /\ Returned("set", EmptyObj, d, Thrown("IOError"))
    /\ UNCHANGED <<drv, autoSave, isConnected>>

UpdateFails(q, d) ==
    /\ ~NotConnected
    /\ AutoSaves
    /\ MatchCount(data, q) > 0
    /\ \E t2 \in LaterReads :
         \E cut \in IF t2 = now THEN {Len(data)} ELSE 0..Len(data) :
            /\ data' = [i \in 1..Len(data) |->
                          IF Matches(data[i], q)
                          THEN UpdatedRecord(data[i], d, IF i <= cut THEN now ELSE t2)
                          ELSE data[i]]
            /\ now' = t2
    /\ disk' = WriteRejected(disk)
    /\ Returned("update", q, d, Thrown("IOError"))
    /\ UNCHANGED <<drv, autoSave, isConnected, inserted>>

DeleteFails(q) ==
    /\ ~NotConnected
    /\ AutoSaves
    /\ Len(Remaining(data, q)) < Len(data)
    /\ data' = Remaining(data, q)
    /\ disk' = WriteRejected(disk)
    /\ Returned("delete", q, EmptyObj, Thrown("IOError"))
    /\ UNCHANGED <<drv, autoSave, isConnected, now, inserted>>

ClearFails ==
    /\ ~NotConnected
    /\ ClearSaves
    /\ data' = <<>>
    /\ disk' = WriteRejected(disk)
    /\ Returned("clear", EmptyObj, EmptyObj, Thrown("IOError"))
    /\ UNCHANGED <<drv, autoSave, isConnected, now, inserted>>

SaveFails ==
    /\ ~NotConnected
    /\ disk' = WriteRejected(disk)
    /\ Returned("save", EmptyObj, EmptyObj, Thrown("IOError"))
    /\ UNCHANGED <<drv, autoSave, isConnected, data, now, inserted>>

\* set() arguments of application fields only
PlainInputs == {d \in SetInputs : ~HasKey(d, "_id")}

NextFault ==
    \/ Connect
    \/ \E d \in PlainInputs : Set(d)
    \/ \E d \in PlainInputs : SetFails(d)
    \/ \E q \in Queries, d \in PlainPatches : Update(q, d)
    \/ \E q \in Queries, d \in PlainPatches : UpdateFails(q, d)
    \/ \E q \in Queries : Delete(q)
    \/ \E q \in Queries : DeleteFails(q)
    \/ Clear
    \/ ClearFails
    \/ Save
    \/ SaveFails
    \/ Tick

SpecFault == Init /\ [][NextFault]_vars

-----------------------------------------------------------------------------
\* What the client holds after a call: set() returns the object it pushed,
\* getOne() the object find() met, get() a new array ([...this.data] or the
\* result of filter) whose elements are the stored objects themselves.

\* positions in the collection of the objects the last call returned, in the
\* order of the returned list
ReturnedPositions ==
    CASE op = "set" -> <<Len(data)>>
      [] op = "get" ->
            SelectSeq([i \in 1..Len(data) |-> i],
                      LAMBDA i : Len(arg.q.kids) = 0 \/ Matches(data[i], arg.q))
      [] op = "getOne" ->
            LET found == SelectSeq([i \in 1..Len(data) |-> i],
                                   LAMBDA i : Matches(data[i], arg.q))
            IN  IF found = <<>> THEN <<>> ELSE <<Head(found)>>
      [] OTHER -> <<>>

AssignedFields == {E("a", Num(9))}

\* the client assigns a field of the j-th record it was handed: result[j].k = v
AssignField(j, e) ==
    /\ op \in {"set", "get", "getOne"}
    /\ ret.err = "none"
    /\ j \in 1..Len(ret.recs)
    /\ LET i == ReturnedPositions[j]
       IN  data' = [data EXCEPT ![i] = Put(data[i], e.k, e.v)]
    /\ Returned("assignField", EmptyObj, Obj(<<e>>),
                [Ok EXCEPT !.recs = <<Put(ret.recs[j], e.k, e.v)>>])
    /\ UNCHANGED <<drv, autoSave, isConnected, disk, now, inserted>>

\* the client empties the list get() handed it: result.length = 0
TruncateList ==
    /\ op = "get"
    /\ ret.err = "none"
    /\ Returned("truncateList", EmptyObj, EmptyObj, Ok)
    /\ UNCHANGED <<drv, autoSave, isConnected, data, disk, now, inserted>>

NextAlias ==
    \/ Connect
    \/ \E d \in SetInputs : Set(d)
    \/ \E q \in Queries : Get_(q)
    \/ \E q \in Queries : GetOne(q)
    \/ \E j \in 1..MaxSets, e \in AssignedFields : AssignField(j, e)
    \/ TruncateList
    \/ Save

SpecAlias == Init /\ [][NextAlias]_vars

-----------------------------------------------------------------------------
\* Vocabulary of the properties.

\* mutations persist before they return: the autoSave flag is on, or the
\* class is the JSONDriver that always saves
AutoSaveMode == (drv \in {"JsonAuto", "YamlAuto"} /\ autoSave) \/ drv = "Json"

\* mutations are persisted by save()/flush() only: the autoSave flag is off,
\* or the class is the YAMLDriver without the option
ManualMode == (drv \in {"JsonAuto", "YamlAuto"} /\ ~autoSave) \/ drv = "Yaml"

\* the collection a snapshot file holds: the elements of its top-level
\* sequence; no file, or no sequence, holds none
SnapshotRecords(f) == IF f.exists /\ IsArray(f.doc) THEN Items(f.doc) ELSE <<>>

Succeeded(name) == op = name /\ ret.err = "none"

\* the step is the clock moving on, not a call
TickStep ==
    /\ now' = now + 1
    /\ UNCHANGED <<drv, autoSave, isConnected, data, disk, inserted, op, arg, ret, io>>

\* the step is a call of the named operation returning
Call(name) == op' = name /\ ~TickStep

-----------------------------------------------------------------------------
\* C1: while the driver is Disconnected, each of set, get, update, delete,
\* exists and count fails with a NotConnected error, in every driver class.
C1_DisconnectedCallsFail ==
    [][(~isConnected /\ \E name \in {"set", "get", "update", "delete", "exists", "count"} :
                            Call(name))
         => ret'.err = "NotConnected"]_vars

C3_ManualMutationsLeaveDisk ==
    [][(ManualMode /\ \E name \in {"set", "update", "delete", "clear"} : Call(name))
         => disk' = disk]_vars

\* C4 as claimed: in manual mode disconnect() does not write the snapshot
\* (here: of a connected driver that holds records).
C4_ManualDisconnectNeverWrites ==
    [][(ManualMode /\ isConnected /\ Len(data) > 0 /\ Call("disconnect"))
         => disk' = disk]_vars

\* C4 as amended: in manual mode of the YAML drivers disconnect() does not
\* write the snapshot, and the connect() that follows loads the collection
\* the snapshot holds, as last written; the JSON driver with the autoSave
\* flag writes the in-memory collection on every disconnect().
C4_DisconnectThenConnect ==
    [][/\ (ManualMode /\ ~IsJson /\ Call("disconnect"))
            => (disk' = disk /\ ~isConnected')
       /\ (ManualMode /\ ~IsJson /\ op = "disconnect" /\ Call("connect")
                /\ disk.exists)
            => (ret'.err = "none" /\ isConnected' /\ disk' = disk
                /\ data' = SnapshotRecords(disk))
       /\ (drv = "JsonAuto" /\ Call("disconnect"))
            => (disk'.exists /\ SnapshotRecords(disk') = data)]_vars

\* a YAML driver in manual mode has disconnected while holding records the
\* snapshot does not hold
C4_Witness ==
    /\ ManualMode
    /\ ~IsJson
    /\ op = "disconnect"
    /\ ~isConnected
    /\ Len(data) > 0
    /\ disk.exists
    /\ SnapshotRecords(disk) # data


\* C5: set(R) on a connected driver returns a record that has every field of
\* R with R's value, an _id that no other record of the collection has, and
\* _createdAt equal to _updatedAt.
C5_SetReturnsRecord ==
    (Succeeded("set") /\ isConnected)
    => LET record == ret.recs[1]
       IN  /\ \A k \in Keys(arg.d) : Get(record, k) = Get(arg.d, k)
           /\ HasKey(record, "_id")
           /\ data[Len(data)] = record
           /\ \A i \in 1..(Len(data) - 1) :
                 Get(data[i], "_id") # Get(record, "_id")
           /\ Get(record, "_createdAt") = Get(record, "_updatedAt")

\* C6: no two records of the in-memory collection (of a connected driver)
\* have the same _id.
C6_IdsUnique ==
    isConnected
    => \A i, j \in 1..Len(data) :
          (i < j /\ HasKey(data[i], "_id") /\ HasKey(data[j], "_id"))
          => Get(data[i], "_id") # Get(data[j], "_id")

\* C7: update(query, patch) leaves the _id and the _createdAt of every
\* matching record as they were, whatever the patch holds.
C7_UpdateKeepsIdAndCreatedAt ==
    [][(isConnected /\ Call("update") /\ ret'.err = "none")
         => /\ Len(data') = Len(data)
            /\ \A i \in 1..Len(data) :
                  Matches(data[i], arg'.q)
                  => /\ Get(data'[i], "_id") = Get(data[i], "_id")
                     /\ Get(data'[i], "_createdAt") = Get(data[i], "_createdAt")]_vars

\* the fields update() sets itself
SystemFields == {"_id", "_createdAt", "_updatedAt"}

\* what C8 says of a record at one position, for the patch fields in
\* `patched` and the remaining fields of the record
UpdateEffect(old, new, q, patch, patched, t0, t1) ==
    IF Matches(old, q)
    THEN /\ \A k \in patched : Get(new, k) = Get(patch, k)
         /\ \A k \in (Keys(old) \ Keys(patch)) \ {"_updatedAt"} :
               Get(new, k) = Get(old, k)
         /\ Keys(new) = Keys(old) \cup Keys(patch) \cup {"_updatedAt"}
         /\ \E t \in t0..t1 : Get(new, "_updatedAt") = IsoTime(t)
    ELSE new = old

\* C8 as claimed: update returns the number of records that matched; every
\* matching record gets every patch field with the patch's value, keeps its
\* other fields and gets a new _updatedAt; every other record is unchanged;
\* no record changes position.
C8_UpdateMergesEveryPatchField ==
    [][(Call("update") /\ ret'.err = "none")
         => /\ ret'.n = MatchCount(data, arg'.q)
            /\ Len(data') = Len(data)
            /\ \A i \in 1..Len(data) :
                  UpdateEffect(data[i], data'[i], arg'.q, arg'.d,
                               Keys(arg'.d) \ {"_updatedAt"}, now, now')]_vars

\* C8 as amended: the same, for the patch fields other than _id, _createdAt
\* and _updatedAt.
C8_UpdateMergesPatch ==
    [][(Call("update") /\ ret'.err = "none")
         => /\ ret'.n = MatchCount(data, arg'.q)
            /\ Len(data') = Len(data)
            /\ \A i \in 1..Len(data) :
                  UpdateEffect(data[i], data'[i], arg'.q, arg'.d,
                               Keys(arg'.d) \ SystemFields, now, now')]_vars

\* an update has changed one of two records: one holds the patch's x, the
\* other does not
C8_Witness ==
    /\ Succeeded("update")
    /\ ret.n = 1
    /\ Len(data) = 2
    /\ HasKey(arg.d, "x")
    /\ \E i, j \in 1..2 :
          /\ Get(data[i], "x") = Bool(TRUE)
          /\ Get(data[i], "a") = Num(2)
          /\ ~HasKey(data[j], "x")
          /\ Get(data[i], "_updatedAt") # Get(data[j], "_updatedAt")

\* positions of the records of recs that the query does not match
Kept(recs, q) == {i \in 1..Len(recs) : ~Matches(recs[i], q)}

RECURSIVE SubsetMatch(_, _)
SubsetMatch(rv, qv) ==
    /\ IsObject(rv)
    /\ \A i \in 1..Len(qv.kids) :
          LET q2 == qv.kids[i].v
              r2 == Get(rv, qv.kids[i].k)
          IN  IF IsObject(q2) THEN SubsetMatch(r2, q2) ELSE r2 = q2

\* C10: for a query whose value is a nested mapping, get returns exactly the
\* records whose value at that key is a mapping that has every key of the
\* query mapping with a matching value, extra keys ignored; in every driver.
C10_NestedSubsetMatch ==
    (/\ Succeeded("get")
     /\ Len(arg.q.kids) = 1
     /\ IsObject(arg.q.kids[1].v)
     /\ Len(arg.q.kids[1].v.kids) > 0)
    => \A i \in 1..Len(data) :
          (\E j \in 1..Len(ret.recs) : ret.recs[j] = data[i])
          <=> SubsetMatch(Get(data[i], arg.q.kids[1].k), arg.q.kids[1].v)

\* the records a call returned, as positions of the collection: the record at
\* position i is among them
ReturnedAt(i) == \E j \in 1..Len(ret.recs) : ret.recs[j] = data[i]

\* equality of two values by value: mappings are equal when they have the same
\* keys with equal values, lists when they have equal elements in the same order
RECURSIVE ValueEq(_, _)
ValueEq(x, y) ==
    CASE x.t # y.t -> FALSE
      [] x.t = "object" ->
            /\ Keys(x) = Keys(y)
            /\ \A k \in Keys(x) : ValueEq(Get(x, k), Get(y, k))
      [] x.t = "array" ->
            /\ Len(x.kids) = Len(y.kids)
            /\ \A i \in 1..Len(x.kids) : ValueEq(x.kids[i].v, y.kids[i].v)
      [] OTHER -> x = y

\* C11: for a query whose value is a list, get returns exactly the records
\* whose value at that key is a list equal to it by value, element by element
\* and in order, whatever the order in which the keys of inner mappings were
\* inserted; never a subset match.
C11_ListExactMatch ==
    (/\ Succeeded("get")
     /\ Len(arg.q.kids) = 1
     /\ IsArray(arg.q.kids[1].v))
    => \A i \in 1..Len(data) :
          ReturnedAt(i)
          <=> LET rv == Get(data[i], arg.q.kids[1].k)
              IN  IsArray(rv) /\ ValueEq(rv, arg.q.kids[1].v)

IsScalar(v) == v.t \in {"null", "boolean", "number", "string"}

\* the record has the key of the query entry, with the entry's value
FieldEquals(record, entry) ==
    HasKey(record, entry.k) /\ Get(record, entry.k) = entry.v

\* C12: get(query) returns, in storage order, the records that match every
\* top-level key of the query; the empty query returns every record; for
\* scalar query values a record matches iff it has each key with an equal
\* value, and a record without the key does not match.
C12_ScalarAndMatch ==
    Succeeded("get")
    => /\ ret.recs = SelectSeq(data, LAMBDA r :
                        \A j \in 1..Len(arg.q.kids) :
                            Matches(r, Obj(<<arg.q.kids[j]>>)))
       /\ (\A j \in 1..Len(arg.q.kids) : IsScalar(arg.q.kids[j].v))
            => ret.recs = SelectSeq(data, LAMBDA r :
                             \A j \in 1..Len(arg.q.kids) :
                                 FieldEquals(r, arg.q.kids[j]))
       /\ arg.q = EmptyObj => ret.recs = data

\* get({a: 1}) over records with a = 1, a = 2 and no a has returned one record
C12_Witness ==
    /\ Succeeded("get")
    /\ arg.q = Obj(<<E("a", Num(1))>>)
    /\ Len(data) = 3
    /\ \E i, j, k \in 1..3 :
          /\ Get(data[i], "a") = Num(1)
          /\ Get(data[j], "a") = Num(2)
          /\ ~HasKey(data[k], "a")
    /\ Len(ret.recs) = 1
    /\ Get(ret.recs[1], "a") = Num(1)

ReadNames == {"get", "getOne", "exists", "count"}

\* C13: the read operations agree: a count, exists or getOne that follows a
\* get of the same query returns the length of its result, whether it is
\* non-empty, and its first record or none; exists is true iff the count of
\* the same query is positive; count({}) is the size of the collection; and
\* no read changes the collection or the snapshot.
C13_ReadsAgree ==
    [][/\ (\E name \in ReadNames : Call(name))
            => (data' = data /\ disk' = disk)
       /\ (Succeeded("get") /\ arg'.q = arg.q /\ ret'.err = "none")
            => /\ Call("count") => ret'.n = Len(ret.recs)
               /\ Call("exists") => (ret'.b <=> Len(ret.recs) > 0)
               /\ Call("getOne")
                    => ret'.recs = IF ret.recs = <<>> THEN <<>>
                                   ELSE <<Head(ret.recs)>>
       /\ (Succeeded("count") /\ arg'.q = arg.q /\ ret'.err = "none"
                /\ Call("exists"))
            => (ret'.b <=> ret.n > 0)
       /\ (Call("count") /\ arg'.q = EmptyObj /\ ret'.err = "none")
            => ret'.n = Len(data)]_vars

\* a count over two records has found one
C13_Witness ==
    /\ Succeeded("count")
    /\ isConnected
    /\ Len(arg.q.kids) > 0
    /\ Len(data) = 2
    /\ ret.n = 1

\* C14: connect() on a path that holds no file writes an empty, well-formed
\* snapshot, whatever the autoSave setting; the driver is then Connected with
\* an empty collection.
C14_ConnectCreatesSnapshot ==
    [][(~disk.exists /\ Call("connect"))
         => /\ ret'.err = "none"
            /\ disk' = Saved(<<>>)
            /\ isConnected'
            /\ data' = <<>>]_vars

\* C15: connect() on a Connected driver reloads: afterwards the in-memory
\* collection is the one the snapshot on disk holds (none when there is no
\* file), an existing snapshot is left as it was, and the driver is Connected.
C15_ConnectReloads ==
    [][(isConnected /\ Call("connect") /\ ret'.err = "none")
         => /\ isConnected'
            /\ data' = SnapshotRecords(disk')
            /\ disk.exists => disk' = disk]_vars

\* in manual mode a second record was inserted after the save, and a connect()
\* has returned with the one saved record in memory
C15_Witness ==
    /\ ManualMode
    /\ Succeeded("connect")
    /\ isConnected
    /\ inserted = 2
    /\ Len(data) = 1
    /\ data = SnapshotRecords(disk)

\* C16: a snapshot that does not parse is swallowed by connect(), which leaves
\* the driver Connected with an empty collection, and is thrown by reload(),
\* which leaves the collection as it was; in the JSON and the YAML drivers.
C16_MalformedSnapshot ==
    [][/\ (disk = File(Malformed) /\ Call("connect"))
            => (ret'.err = "none" /\ isConnected' /\ data' = <<>>)
       /\ (disk = File(Malformed) /\ isConnected /\ Call("reload"))
            => (ret'.err \in {"SyntaxError", "Error"} /\ data' = data)]_vars

\* C17: disconnect() leaves the driver without records, and until the next
\* connect() the accessors that need no connection show none.
C17_DisconnectDiscards ==
    [][/\ (isConnected /\ Call("disconnect") /\ ret'.err = "none")
            => data' = <<>>
       /\ (Succeeded("disconnect") /\ Call("getAllData")) => ret'.recs = <<>>
       /\ (Succeeded("disconnect") /\ Call("getRecordCount")) => ret'.n = 0]_vars

\* the call failed because its write was rejected
WriteFailed(name) == Call(name) /\ ret'.err = "IOError"

\* C18: when the save of set, update, delete, clear or save fails, the call
\* fails with the error, the snapshot on disk is what it was, and the
\* collection in memory is the mutated one: the new record appended, the
\* matching records patched or removed, or every record gone.
C18_FailedSaveKeepsMutation ==
    [][/\ (\E name \in {"set", "update", "delete", "clear", "save"} :
              WriteFailed(name))
            => disk' = disk
       /\ WriteFailed("set")
            => /\ Len(data') = Len(data) + 1
               /\ SubSeq(data', 1, Len(data)) = data
               /\ \A k \in Keys(arg'.d) \ SystemFields :
                     Get(data'[Len(data')], k) = Get(arg'.d, k)
       /\ WriteFailed("update")
            => /\ Len(data') = Len(data)
               /\ \A i \in 1..Len(data) :
                     UpdateEffect(data[i], data'[i], arg'.q, arg'.d,
                                  Keys(arg'.d) \ SystemFields, now, now')
       /\ WriteFailed("delete")
            => /\ Len(data') < Len(data)
               /\ Len(data') = Cardinality(Kept(data, arg'.q))
               /\ \A i \in 1..Len(data') : ~Matches(data'[i], arg'.q)
       /\ WriteFailed("clear") => data' = <<>>
       /\ WriteFailed("save") => data' = data]_vars

\* a set() has failed in autoSave mode: memory holds two records, the snapshot
\* the first one only
C18_Witness ==
    /\ AutoSaveMode
    /\ isConnected
    /\ op = "set"
    /\ ret.err = "IOError"
    /\ Len(data) = 2
    /\ disk.exists
    /\ SnapshotRecords(disk) = <<data[1]>>

\* C19: what get, getOne and set return are copies: assigning a field of a
\* returned record, or changing the returned list, changes neither the
\* collection in memory nor the snapshot a later save() writes.
C19_ReturnedAreCopies ==
    [][(isConnected /\ (Call("assignField") \/ Call("truncateList")))
         => (data' = data /\ Saved(data') = Saved(data))]_vars

\* what get(q) returns from the collection recs in a JSONDriver and in a
\* YAMLDriver
GetOfJSON(recs, q) ==
    IF Len(q.kids) = 0 THEN recs ELSE SelectSeq(recs, LAMBDA r : MatchesJSON(r, q))

GetOfYAML(recs, q) ==
    IF Len(q.kids) = 0 THEN recs ELSE SelectSeq(recs, LAMBDA r : MatchesYAML(r, q))

\* C20: the JSON driver and the YAML driver behave alike: on the same
\* collection, loaded from the same snapshot, a get of the same query returns
\* the same records in both, whichever of the two this driver is.
C20_DriversAgree ==
    Succeeded("get")
    => /\ ret.recs = GetOfJSON(data, arg.q)
       /\ ret.recs = GetOfYAML(data, arg.q)

-----------------------------------------------------------------------------
\* The record store with its read: what get() returns after sets, updates
\* with patches of application fields, and deletes.

NextOrder ==
    \/ Connect
    \/ \E d \in SetInputs : Set(d)
    \/ \E q \in Queries : Get_(q)
    \/ \E q \in Queries, d \in PlainPatches : Update(q, d)
    \/ \E q \in Queries : Delete(q)
    \/ Tick

SpecOrder == Init /\ [][NextOrder]_vars

\* the record holds an id that set() drew; such ids are numbered in the order
\* of the calls
HasDrawnId(record) == HasKey(record, "_id") /\ Get(record, "_id").s = "gen"

\* the records of recs that hold a drawn id stand in the order of their sets
InInsertionOrder(recs) ==
    \A i, j \in 1..Len(recs) :
       (i < j /\ HasDrawnId(recs[i]) /\ HasDrawnId(recs[j]))
       => Get(recs[i], "_id").n < Get(recs[j], "_id").n

\* positions of the records of recs that the query matches
Hit(recs, q) == {i \in 1..Len(recs) : Matches(recs[i], q)}

C22_ReloadReadsFile ==
    [][(isConnected /\ Call("reload") /\ ret'.err = "none")
         => /\ data' = SnapshotRecords(disk')
            /\ ~disk'.exists => data' = <<>>]_vars

-----------------------------------------------------------------------------
\* Round trip: collections of nested values written by save() and read back
\* by reload(), or by connect() after a disconnect().

\* set(data) with a nested mapping and list, with a number that is not
\* finite, and with a scalar
RoundInputs ==
    { Obj(<<E("n", Obj(<<E("list", Arr(<<Num(1), Obj(<<E("b", Null)>>)>>)),
                         E("s", Str("x"))>>))>>),
      Obj(<<E("a", NaN)>>),
      Obj(<<E("a", Num(1))>>) }

NextRound ==
    \/ Connect
    \/ Disconnect
    \/ \E d \in RoundInputs : Set(d)
    \/ Save
    \/ Reload

SpecRound == Init /\ [][NextRound]_vars

\* every number in the value is finite
RECURSIVE Finite(_)
Finite(v) ==
    /\ v # NaN
    /\ \A i \in 1..Len(v.kids) : Finite(v.kids[i].v)

\* what C23 says of the steps after a save() of the collection, when the
\* collection is one of those `covered` holds of
RoundTrip(covered) ==
    /\ (Succeeded("save") /\ isConnected /\ covered /\ Call("reload"))
         => (ret'.err = "none" /\ data' = data)
    /\ (Succeeded("save") /\ isConnected /\ covered /\ Call("disconnect"))
         => (disk'.exists /\ IsArray(disk'.doc) /\ SnapshotRecords(disk') = data)
    /\ (op = "disconnect" /\ Call("connect") /\ disk.exists /\ IsArray(disk.doc))
         => (ret'.err = "none" /\ data' = SnapshotRecords(disk) /\ disk' = disk)

NoSequence(f) == f.exists /\ f.doc # Malformed /\ ~IsArray(f.doc)

\* C24: when the snapshot file decodes but its top level is no sequence (a
\* scalar, null, or a mapping other than the JSON legacy form), connect()
\* succeeds with an empty collection; of the JSON legacy form connect() makes
\* the values of `records` the collection, while reload() makes the
\* collection empty.
C24_NoSequenceLoadsEmpty ==
    [][/\ (NoSequence(disk) /\ ~(IsJson /\ disk.doc = Legacy) /\ Call("connect"))
            => (ret'.err = "none" /\ isConnected' /\ data' = <<>>)
       /\ (IsJson /\ disk = File(Legacy) /\ Call("connect"))
            => (ret'.err = "none" /\ isConnected' /\ data' = <<SelectRecord(2)>>)
       /\ (isConnected /\ NoSequence(disk) /\ Call("reload"))
            => (ret'.err = "none" /\ data' = <<>>)]_vars

-----------------------------------------------------------------------------
\* Failing connects: a connect() whose file read is rejected (a directory
\* that cannot be made, a file that cannot be read), or whose write of the
\* empty snapshot is rejected.

\* mkdir or readFile rejects with an error other than ENOENT: the error is
\* thrown before anything is assigned
ConnectReadFails ==
    /\ Returned("connect", EmptyObj, EmptyObj, Thrown("IOError"))
    /\ UNCHANGED <<drv, autoSave, isConnected, data, disk, now, inserted>>

\* the file is absent and the write of the empty snapshot is rejected: the
\* collection has been emptied before the write, isConnected is not assigned
ConnectWriteFails ==
    /\ ~disk.exists
    /\ ConnectCreates
    /\ data' = <<>>
    /\ disk' = WriteRejected(disk)
    /\ Returned("connect", EmptyObj, EmptyObj, Thrown("IOError"))
    /\ UNCHANGED <<drv, autoSave, isConnected, now, inserted>>

NextConnect ==
    \/ Connect
    \/ ConnectReadFails
    \/ ConnectWriteFails
    \/ Disconnect
    \/ \E d \in LoadInputs : Set(d)
    \/ Save
    \/ Drop

SpecConnect == InitLoad /\ [][NextConnect]_vars

\* C25: a connect() that fails does not make the driver Connected and does
\* not change the in-memory collection: a Disconnected driver stays
\* Disconnected, a Connected driver keeps its collection.
C25_FailedConnectChangesNothing ==
    [][(Call("connect") /\ ret'.err # "none")
         => (isConnected' = isConnected /\ data' = data)]_vars

-----------------------------------------------------------------------------
\* Concurrent calls.  A call runs without interruption from its start to its
\* first await that suspends and from there to its return, as JavaScript
\* runs every callback to completion; between the two, other calls run.  A
\* mutating call suspends once, in saveToFile()/persist(), after it has
\* serialized the collection and handed the text to the writer.

\* calls suspended at the same time
MaxInFlight == 2

\* the outcome of a call that has not returned
Pending == [err |-> "pending", n |-> 0, b |-> FALSE, recs |-> <<>>]

\* writer.write(content) of a call: the file the writer will have written,
\* and what the call returns after it
Write(name, q, d, recs, r) ==
    [call |-> name, kind |-> "write", file |-> Saved(recs),
     arg |-> [q |-> q, d |-> d], ret |-> r]

\* fs.readFile(...) of a call; the content is that of the file at the moment
\* the read is served
Read(name) ==
    [call |-> name, kind |-> "reading", file |-> NoFile,
     arg |-> [q |-> EmptyObj, d |-> EmptyObj], ret |-> Ok]

\* io without its i-th operation
Without(i) == SubSeq(io, 1, i - 1) \o SubSeq(io, i + 1, Len(io))

\* the end of the synchronous part of a mutating call: with a save it hands
\* the serialized collection to the writer and suspends, without one it
\* returns
Await(name, q, d, r, saves) ==
    IF saves
    THEN /\ Len(io) < MaxInFlight
         /\ io' = Append(io, Write(name, q, d, data', r))
         /\ op' = name
         /\ arg' = [q |-> q, d |-> d]
         /\ ret' = Pending
    ELSE Returned(name, q, d, r)

\* a set() that serializes the collection before it appends the record
IssueSetSnapshotFirst(d) ==
    IF NotConnected THEN Refused("set", EmptyObj, d)
    ELSE /\ inserted < MaxSets
         /\ Len(io) < MaxInFlight
         /\ \E t2 \in LaterReads :
              LET record == NewRecord(d, now, t2)
              IN  /\ data' = Append(data, record)
                  /\ now' = t2
                  /\ io' = Append(io, Write("set", EmptyObj, d, data,
                                            [Ok EXCEPT !.recs = <<record>>]))
                  /\ op' = "set"
                  /\ arg' = [q |-> EmptyObj, d |-> d]
                  /\ ret' = Pending
         /\ inserted' = inserted + 1
         /\ UNCHANGED <<drv, autoSave, isConnected, disk>>

\* set() up to `await this.saveToFile()`
IssueSet(d) ==
    IF NotConnected THEN Refused("set", EmptyObj, d)
    ELSE /\ inserted < MaxSets
         /\ \E t2 \in LaterReads :
              LET record == NewRecord(d, now, t2)
              IN  /\ data' = Append(data, record)
                  /\ now' = t2
                  /\ Await("set", EmptyObj, d, [Ok EXCEPT !.recs = <<record>>],
                           AutoSaves)
         /\ inserted' = inserted + 1
         /\ UNCHANGED <<drv, autoSave, isConnected, disk>>

\* update() up to `await this.saveToFile()`
IssueUpdate(q, d) ==
    IF NotConnected THEN Refused("update", q, d)
    ELSE LET count == MatchCount(data, q)
         IN  /\ \E t2 \in LaterReads :
                 \E cut \in IF t2 = now THEN {Len(data)} ELSE 0..Len(data) :
                    /\ data' = [i \in 1..Len(data) |->
                                  IF Matches(data[i], q)
                                  THEN UpdatedRecord(data[i], d,
                                                     IF i <= cut THEN now ELSE t2)
                                  ELSE data[i]]
                    /\ now' = IF count > 0 THEN t2 ELSE now
             /\ Await("update", q, d, [Ok EXCEPT !.n = count],
                      count > 0 /\ AutoSaves)
             /\ UNCHANGED <<drv, autoSave, isConnected, disk, inserted>>

\* delete() up to `await this.saveToFile()`
IssueDelete(q) ==
    IF NotConnected THEN Refused("delete", q, EmptyObj)
    ELSE LET count == Len(data) - Len(Remaining(data, q))
         IN  /\ data' = Remaining(data, q)
             /\ Await("delete", q, EmptyObj, [Ok EXCEPT !.n = count],
                      count > 0 /\ AutoSaves)
             /\ UNCHANGED <<drv, autoSave, isConnected, disk, now, inserted>>

\* clear() up to `await this.saveToFile()`
IssueClear ==
    IF NotConnected THEN Refused("clear", EmptyObj, EmptyObj)
    ELSE /\ data' = <<>>
         /\ Await("clear", EmptyObj, EmptyObj, Ok, ClearSaves)
         /\ UNCHANGED <<drv, autoSave, isConnected, disk, now, inserted>>

\* The writer finishes the oldest write handed to it and the call that
\* awaited it returns; connect() assigns isConnected on its way out.
CompleteWrite ==
    \E i \in 1..Len(io) :
       /\ io[i].kind = "write"
       /\ \A j \in 1..(i - 1) : io[j].kind # "write"
       /\ disk' = io[i].file
       /\ io' = Without(i)
       /\ op' = io[i].call
       /\ arg' = io[i].arg
       /\ ret' = io[i].ret
       /\ isConnected' = IF io[i].call = "connect" THEN TRUE ELSE isConnected
       /\ UNCHANGED <<drv, autoSave, data, now, inserted>>

\* the concurrent calls run against a driver that connect() has just
\* connected to a new file, with mutations that save
InitConcurrent ==
    /\ drv \in {"JsonAuto", "Json", "YamlAuto"}
    /\ autoSave = TRUE
    /\ isConnected = TRUE
    /\ data = <<>>
    /\ disk = File(Arr(<<>>))
    /\ now = 0
    /\ inserted = 0
    /\ op = "connect"
    /\ arg = [q |-> EmptyObj, d |-> EmptyObj]
    /\ ret = Ok
    /\ io = <<>>

NextConcurrent ==
    \/ \E d \in PlainInputs : IssueSet(d)
    \/ \E q \in Queries, d \in PlainPatches : IssueUpdate(q, d)
    \/ \E q \in Queries : IssueDelete(q)
    \/ IssueClear
    \/ CompleteWrite

SpecConcurrent == InitConcurrent /\ [][NextConcurrent]_vars

\* the step is the named call reaching its await
Issued(name) == op' = name /\ ret'.err = "pending"

\* the write the step has handed to the writer: the last of those in flight
Handed == io'[Len(io')]

\* C26: of concurrent set, update, delete and clear calls on a connected
\* driver in autoSave mode, each changes the in-memory collection in one
\* step, as it would alone; the snapshot it hands to the writer is the whole
\* collection with every change made so far; the snapshots are handed over
\* in the order of the calls; so at any moment the last snapshot handed over
\* and not yet written is the in-memory collection.
C26_SnapshotsHoldEveryMutation ==
    [][/\ (\E name \in {"set", "update", "delete", "clear"} : Issued(name))
            => /\ io' = Append(io, Handed)
               /\ Handed.kind = "write"
               /\ Handed.call = op'
               /\ SnapshotRecords(Handed.file) = data'
       /\ Issued("set")
            => (data' = Append(data, Handed.ret.recs[1]))
       /\ Issued("update")
            => /\ Len(data') = Len(data)
               /\ Handed.ret.n = MatchCount(data, arg'.q)
               /\ \A i \in 1..Len(data) :
                     UpdateEffect(data[i], data'[i], arg'.q, arg'.d,
                                  Keys(arg'.d) \ SystemFields, now, now')
       /\ Issued("delete")
            => (data' = SelectSeq(data, LAMBDA r : ~Matches(r, arg'.q)))
       /\ Issued("clear")
            => (data' = <<>>)
       /\ (io' # <<>>) => (SnapshotRecords(Handed.file) = data')]_vars

\* two calls are suspended at their saves: a set() and, issued after it, an
\* update() whose snapshot holds the record set and the patch
C26_Witness ==
    /\ Len(io) = 2
    /\ io[1].call = "set"
    /\ io[2].call = "update"
    /\ io[1].file # io[2].file
    /\ SnapshotRecords(io[2].file) = data
    /\ Len(data) > 0
    /\ SnapshotRecords(disk) # data

-----------------------------------------------------------------------------
\* Concurrent calls with loads: reload() and connect() issued while other
\* calls are suspended.  The JSONDriver classes read the file with
\* `await fs.readFile`, so the load is suspended at the read and resumes
\* with the content the read found; the YAMLDriver with the autoSave option
\* reads with readFileSync and loads in one piece.

\* the class reads the file asynchronously in connect() and reload()
AsyncFs == drv # "YamlAuto"

\* reload() up to `await fs.readFile`
IssueReload ==
    /\ HasReload
    /\ AsyncFs
    /\ IF NotConnected THEN Refused("reload", EmptyObj, EmptyObj)
       ELSE /\ Len(io) < MaxInFlight
            /\ io' = Append(io, Read("reload"))
            /\ op' = "reload"
            /\ arg' = [q |-> EmptyObj, d |-> EmptyObj]
            /\ ret' = Pending
            /\ UNCHANGED <<drv, autoSave, isConnected, data, disk, now, inserted>>

\* connect() up to `await fs.readFile`
IssueConnect ==
    /\ AsyncFs
    /\ Len(io) < MaxInFlight
    /\ io' = Append(io, Read("connect"))
    /\ op' = "connect"
    /\ arg' = [q |-> EmptyObj, d |-> EmptyObj]
    /\ ret' = Pending
    /\ UNCHANGED <<drv, autoSave, isConnected, data, disk, now, inserted>>

\* the file system serves a read: the call will resume with the file as it
\* is now
ReadFile ==
    \E i \in 1..Len(io) :
       /\ io[i].kind = "reading"
       /\ io' = [io EXCEPT ![i].kind = "read", ![i].file = disk]
       /\ op' = "readFile"
       /\ arg' = [q |-> EmptyObj, d |-> EmptyObj]
       /\ ret' = Ok
       /\ UNCHANGED <<drv, autoSave, isConnected, data, disk, now, inserted>>

\* reload() from the read to its return
ResumeReload ==
    \E i \in 1..Len(io) :
       /\ io[i].kind = "read"
       /\ io[i].call = "reload"
       /\ io' = Without(i)
       /\ op' = "reload"
       /\ arg' = io[i].arg
       /\ IF ~io[i].file.exists
          THEN /\ data' = IF IsJson THEN <<>> ELSE data
               /\ ret' = Ok
          ELSE LET loaded == LoadOnReload(io[i].file.doc)
               IN  IF loaded.err # "none"
                   THEN data' = data /\ ret' = Thrown(loaded.err)
                   ELSE data' = loaded.recs /\ ret' = Ok
       /\ UNCHANGED <<drv, autoSave, isConnected, disk, now, inserted>>

\* connect() from the read on: to its return when the file was there, to
\* `await this.saveToFile()` when it was not
ResumeConnect ==
    \E i \in 1..Len(io) :
       /\ io[i].kind = "read"
       /\ io[i].call = "connect"
       /\ op' = "connect"
       /\ arg' = io[i].arg
       /\ IF ~io[i].file.exists
          THEN /\ data' = <<>>
               /\ IF ConnectCreates
                  THEN /\ io' = Append(Without(i),
                                       Write("connect", EmptyObj, EmptyObj, <<>>, Ok))
                       /\ ret' = Pending
                       /\ isConnected' = isConnected
                  ELSE /\ io' = Without(i)
                       /\ ret' = Ok
                       /\ isConnected' = TRUE
          ELSE LET loaded == LoadOnConnect(io[i].file.doc)
               IN  /\ io' = Without(i)
                   /\ IF loaded.err # "none"
                      THEN /\ data' = data
                           /\ ret' = Thrown(loaded.err)
                           /\ isConnected' = isConnected
                      ELSE /\ data' = loaded.recs
                           /\ ret' = Ok
                           /\ isConnected' = TRUE
       /\ UNCHANGED <<drv, autoSave, disk, now, inserted>>

\* reload() of the class that reads with readFileSync
ReloadSync == ~AsyncFs /\ Reload

\* connect() of the class that reads with readFileSync, on a file that is
\* there
ConnectSync == ~AsyncFs /\ disk.exists /\ Connect

NextInterleaved ==
    \/ \E d \in PlainInputs : IssueSet(d)
    \/ \E q \in Queries, d \in PlainPatches : IssueUpdate(q, d)
    \/ \E q \in Queries : IssueDelete(q)
    \/ IssueClear
    \/ CompleteWrite
    \/ IssueReload
    \/ IssueConnect
    \/ ReadFile
    \/ ResumeReload
    \/ ResumeConnect
    \/ ReloadSync
    \/ ConnectSync

SpecInterleaved == InitConcurrent /\ [][NextInterleaved]_vars

\* C27: whatever way set, update, delete, clear, reload and connect calls on
\* a connected driver whose mutations save have been interleaved, once every
\* call has returned the collection the file holds is the in-memory
\* collection.
C27_QuiescentFileIsMemory ==
    (io = <<>> /\ isConnected /\ ret.err = "none")
    => SnapshotRecords(disk) = data

====
